---- MODULE Spec2Model ----
(***************************************************************************)
(* Model of the BirdSound inference core:                                  *)
(*   ModelRegistry      (backend/app/services/model_registry.py)           *)
(*   PredictionService  (backend/app/services/prediction_service.py)       *)
(*                                                                         *)
(* Confidences are integers in hundredths (92 stands for 0.92).  A         *)
(* quotient score / count is kept as the exact fraction [num, den].        *)
(* A raised exception is the record [exc |-> kind]; a task that has not    *)
(* settled yet is the record [pending |-> TRUE].                           *)
(*   AudioEnhancer      (backend/app/services/audio_enhancement.py)        *)
(*   AudioProcessor     (backend/app/services/audio_processor.py)          *)
(*   predict_bird_sound (backend/app/api/routes/predict.py)                *)
(*                                                                         *)
(* An enhancement buffer is kept symbolically: whether it is silent, and   *)
(* the list of transformations that produced it from the input.            *)
(***************************************************************************)
EXTENDS Integers, Sequences, FiniteSets, TLC

VARIABLES
    pc,             \* position of the application lifespan (main.py)
    models_to_load, \* load_models: the candidate list, in construction order
    loadTask,       \* load_models: per candidate, state of its load() task
    is_loaded,      \* per model instance: BaseBirdModel.is_loaded
    models,         \* ModelRegistry.models: names in dict insertion order
    unloadTask,     \* unload_models: per model, state of its unload() task
    unloadCalls,    \* per model: number of unload() calls issued so far
    rpc,            \* position of the request handler (process_audio_chunk)
    request,        \* the AudioChunkRequest being served
    registered,     \* the mapping as predict_all saw it when it was called
    tasks,          \* predict_all: models whose predict() was called, in order
    results,        \* predict_all: per task, pending / exception / ModelOutput
    model_outputs,  \* process_audio_chunk: what predict_all returned
    response,       \* what process_audio_chunk returned (or raised)
    stored,         \* whether _store_prediction was called for the request
    http_status,    \* status code predict_bird_sound answered with (0: none)
    cpc,            \* consensus harness: "input" or "computed"
    cOutputs,       \* consensus harness: the model_outputs argument
    cMethod,        \* consensus harness: the method argument
    cResult,        \* consensus harness: what compute_consensus returned
    epc,            \* enhance: "input", "running", "returned" or "raised"
    eAudio,         \* enhance: the audio argument
    sample_rate,    \* enhance: the sample_rate argument
    settings,       \* enhance: the EnhancementSettings argument
    eEnv,           \* enhance: which libraries import, which DSP call raises
    eIdx,           \* enhance: index in Stages of the next stage to consider
    enhanced,       \* enhance: the local buffer `enhanced`
    applied,        \* enhance: the local dict `applied`
    eCalls,         \* enhance: the _apply_* calls made so far, in order
    upload,         \* predict_upload: calls made so far, audio the models got
    apc,            \* audio harness: "input", or the function last called
    processor,      \* audio harness: the AudioProcessor instance
    aWave,          \* audio harness: waveform argument of direct calls
    aRaw,           \* audio harness: arguments of prepare_for_model
    aOut,           \* audio harness: what the last call returned or raised
    aFirst,         \* audio harness: what the first normalize returned
    aGate,          \* audio harness: where the handler went after its gate
    clock,          \* rate limiter: what time.time() returns, in seconds
    ticks,          \* rate limiter: number of advances of the clock so far
    config,         \* rate limiter: RateLimiter.config
    _clients,       \* rate limiter: RateLimiter._clients, per client
    lpc,            \* rate limiter: per thread, "idle" or "at_lock"
    tClient,        \* rate limiter: per thread, the client_id argument
    tNow,           \* rate limiter: per thread, the local `now`
    ncalls,         \* rate limiter: number of is_allowed calls so far
    granted         \* rate limiter: per client, `now` of every allowed call

lifecycleVars == <<pc, models_to_load, loadTask, is_loaded, models,
                   unloadTask, unloadCalls>>
requestVars   == <<rpc, request, registered, tasks, results, model_outputs,
                   response, stored, http_status>>
consensusVars == <<cpc, cOutputs, cMethod, cResult>>
enhanceVars   == <<epc, eAudio, sample_rate, settings, eEnv, eIdx, enhanced,
                   applied, eCalls, upload>>
audioVars     == <<apc, processor, aWave, aRaw, aOut, aFirst, aGate>>
rateVars      == <<clock, ticks, config, _clients, lpc, tClient, tNow, ncalls,
                   granted>>
harnessVars   == <<enhanceVars, audioVars, rateVars>>
vars          == <<lifecycleVars, requestVars, consensusVars, harnessVars>>

-----------------------------------------------------------------------------
(* Bounds *)

\* longest model_outputs list handed to compute_consensus by the harness
MaxOutputs == 3
\* longest model_names list of a request
MaxNames == 2

-----------------------------------------------------------------------------
(* Values *)

\* None where the code holds an Optional[str]
None == "None"
\* Optional[List[str]]: None, or a list
NoNames == [is_none |-> TRUE, value |-> <<>>]
Names(s) == [is_none |-> FALSE, value |-> s]
\* truth value of an Optional[List[str]]: None and [] are both false
Truthy(opt) == ~opt.is_none /\ opt.value # <<>>

Pending == [pending |-> TRUE]
Exception(kind) == [exc |-> kind]
IsException(r) == "exc" \in DOMAIN r
IsModelOutput(r) == "predictions" \in DOMAIN r
IsPending(r) == "pending" \in DOMAIN r

Species == {"Eurasian Blackbird", "European Robin"}
Confidences == {60, 88, 92}
Methods == {"majority_vote", "weighted_average", "max_confidence"}

species_code(s) == IF s = "Eurasian Blackbird" THEN "blackbird" ELSE "robin"
species_scientific(s) ==
    IF s = "Eurasian Blackbird" THEN "Turdus merula" ELSE "Erithacus rubecula"

PredictionResult(s, c, r) ==
    [species_code |-> species_code(s),
     species_scientific |-> species_scientific(s),
     species_common |-> s, confidence |-> c, rank |-> r]

\* The prediction lists a model can answer with: sorted by rank from 1,
\* confidences non-increasing, no species twice.
PredictionLists ==
    {<<>>}
    \cup {<<PredictionResult(s, c, 1)>> : s \in Species, c \in Confidences}
    \cup {<<PredictionResult(s1, c1, 1), PredictionResult(s2, c2, 2)>> :
            <<s1, c1, s2, c2>> \in
              {q \in Species \X Confidences \X Species \X Confidences :
                 q[1] # q[3] /\ q[2] >= q[4]}}

\* model_version and inference_time_ms are carried through unread by the
\* code modelled here and are left out.
ModelOutput(name, preds) == [model_name |-> name, predictions |-> preds]

-----------------------------------------------------------------------------
(* Python helpers *)

\* sum(p["confidence"] for p in s)
RECURSIVE SumConfidence(_)
SumConfidence(s) ==
    IF s = <<>> THEN 0 ELSE s[1].confidence + SumConfidence(Tail(s))

\* keys of a dict / Counter filled by iterating s: first-seen order
RECURSIVE FirstSeen(_)
FirstSeen(s) ==
    IF s = <<>> THEN <<>>
    ELSE LET r == FirstSeen(SubSeq(s, 1, Len(s) - 1))
             x == s[Len(s)]
         IN  IF \E i \in 1..Len(r) : r[i] = x THEN r ELSE Append(r, x)

\* max(...) returning the last of several maximal elements
ArgMaxLast(keys) ==
    CHOOSE i \in 1..Len(keys) :
        /\ \A j \in 1..Len(keys) : keys[j] <= keys[i]
        /\ \A j \in (i + 1)..Len(keys) : keys[j] < keys[i]

\* max(iterable, key=...) over a non-empty iterable: index of the first
\* element whose key is maximal
ArgMaxFirst(keys) ==
    CHOOSE i \in 1..Len(keys) :
        /\ \A j \in 1..Len(keys) : keys[j] <= keys[i]
        /\ \A j \in 1..(i - 1) : keys[j] < keys[i]

-----------------------------------------------------------------------------
(* ModelRegistry: consensus *)

ConsensusDict(code, sci, common, num, den, method, agree, total) ==
    [species_code |-> code, species_scientific |-> sci,
     species_common |-> common, confidence |-> [num |-> num, den |-> den],
     method |-> method, agreement_count |-> agree, total_models |-> total]

NoPrediction(method, total) ==
    ConsensusDict(None, None, "No prediction", 0, 1, method, 0, total)

Agreeing(predictions, s) == SelectSeq(predictions, LAMBDA p : p.species = s)

\* _majority_vote breaking a tie in count in favour of the name seen last
_majority_vote_last_tie(predictions, total_models) ==
    IF predictions = <<>> THEN Exception("IndexError")
    ELSE
    LET keys == FirstSeen([i \in 1..Len(predictions) |-> predictions[i].species])
        counts == [i \in 1..Len(keys) |-> Len(Agreeing(predictions, keys[i]))]
        w == ArgMaxLast(counts)
        agreeing == Agreeing(predictions, keys[w])
    IN  ConsensusDict(agreeing[1].species_code, agreeing[1].species_scientific,
                      keys[w], SumConfidence(agreeing), Len(agreeing),
                      "majority_vote", counts[w], total_models)

_majority_vote(predictions, total_models) ==
    IF predictions = <<>> THEN Exception("IndexError")
    ELSE
    LET keys == FirstSeen([i \in 1..Len(predictions) |-> predictions[i].species])
        counts == [i \in 1..Len(keys) |-> Len(Agreeing(predictions, keys[i]))]
        w == ArgMaxFirst(counts)
        winner == keys[w]
        count == counts[w]
        agreeing == Agreeing(predictions, winner)
        winner_pred == agreeing[1]
    IN  ConsensusDict(winner_pred.species_code, winner_pred.species_scientific,
                      winner, SumConfidence(agreeing), Len(agreeing),
                      "majority_vote", count, total_models)

\* _weighted_average choosing the group with the highest mean confidence
_weighted_average_by_mean(predictions, total_models) ==
    IF predictions = <<>> THEN Exception("ValueError")
    ELSE
    LET keys == FirstSeen([i \in 1..Len(predictions) |-> predictions[i].species])
        score(i) == SumConfidence(Agreeing(predictions, keys[i]))
        count(i) == Len(Agreeing(predictions, keys[i]))
        w == CHOOSE i \in 1..Len(keys) :
                /\ \A j \in 1..Len(keys) : score(j) * count(i) <= score(i) * count(j)
                /\ \A j \in 1..(i - 1) : score(j) * count(i) < score(i) * count(j)
    IN  ConsensusDict(Agreeing(predictions, keys[w])[1].species_code,
                      Agreeing(predictions, keys[w])[1].species_scientific,
                      keys[w], score(w), count(w),
                      "weighted_average", count(w), total_models)

\* _weighted_average reporting the number of species groups as total_models
_weighted_average_total_groups(predictions, total_models) ==
    IF predictions = <<>> THEN Exception("ValueError")
    ELSE
    LET keys == FirstSeen([i \in 1..Len(predictions) |-> predictions[i].species])
        score(i) == SumConfidence(Agreeing(predictions, keys[i]))
        w == ArgMaxFirst([i \in 1..Len(keys) |-> score(i)])
        g == Agreeing(predictions, keys[w])
    IN  ConsensusDict(g[1].species_code, g[1].species_scientific,
                      keys[w], score(w), Len(g),
                      "weighted_average", Len(g), Len(keys))

_weighted_average(predictions, total_models) ==
    IF predictions = <<>> THEN Exception("ValueError")
    ELSE
    LET keys == FirstSeen([i \in 1..Len(predictions) |-> predictions[i].species])
        species_scores ==
            [i \in 1..Len(keys) |->
                LET g == Agreeing(predictions, keys[i])
                IN  [score |-> SumConfidence(g), count |-> Len(g), pred |-> g[1]]]
        w == ArgMaxFirst([i \in 1..Len(keys) |-> species_scores[i].score])
        winner_species == keys[w]
        winner_data == species_scores[w]
    IN  ConsensusDict(winner_data.pred.species_code,
                      winner_data.pred.species_scientific,
                      winner_species, winner_data.score, winner_data.count,
                      "weighted_average", winner_data.count, total_models)

\* _max_confidence taking the first model's prediction instead of the maximum
_max_confidence_first_prediction(predictions, total_models) ==
    IF predictions = <<>> THEN Exception("ValueError")
    ELSE
    LET winner == predictions[1]
        agreement == Len(Agreeing(predictions, winner.species))
    IN  ConsensusDict(winner.species_code, winner.species_scientific,
                      winner.species, winner.confidence, 1,
                      "max_confidence", agreement, total_models)

_max_confidence(predictions, total_models) ==
    IF predictions = <<>> THEN Exception("ValueError")
    ELSE
    LET winner == predictions[ArgMaxFirst(
                     [i \in 1..Len(predictions) |-> predictions[i].confidence])]
        agreement == Len(Agreeing(predictions, winner.species))
    IN  ConsensusDict(winner.species_code, winner.species_scientific,
                      winner.species, winner.confidence, 1,
                      "max_confidence", agreement, total_models)

\* the last entry of every output's list in place of the first
TopPredictionsLastEntry(outputs) ==
    LET contributing == SelectSeq(outputs, LAMBDA o : o.predictions # <<>>)
    IN  [i \in 1..Len(contributing) |->
            LET pred == contributing[i].predictions[Len(contributing[i].predictions)]
            IN  [model |-> contributing[i].model_name,
                 species |-> pred.species_common,
                 species_code |-> pred.species_code,
                 species_scientific |-> pred.species_scientific,
                 confidence |-> pred.confidence]]

\* the top-1 entry of every output that has predictions, in input order
TopPredictions(outputs) ==
    LET contributing == SelectSeq(outputs, LAMBDA o : o.predictions # <<>>)
    IN  [i \in 1..Len(contributing) |->
            LET pred == contributing[i].predictions[1]
            IN  [model |-> contributing[i].model_name,
                 species |-> pred.species_common,
                 species_code |-> pred.species_code,
                 species_scientific |-> pred.species_scientific,
                 confidence |-> pred.confidence]]

Dispatch(top_predictions, method, total) ==
    IF method = "majority_vote" THEN _majority_vote(top_predictions, total)
    ELSE IF method = "max_confidence" THEN _max_confidence(top_predictions, total)
    ELSE _weighted_average(top_predictions, total)

\* compute_consensus reporting the number of voting models as total_models
compute_consensus_counting_voters(outputs, method) ==
    IF outputs = <<>> THEN NoPrediction(method, 0)
    ELSE LET top_predictions == TopPredictions(outputs)
         IN  IF top_predictions = <<>>
             THEN NoPrediction(method, Len(outputs))
             ELSE Dispatch(top_predictions, method, Len(top_predictions))

\* compute_consensus with its second guard (no top-1 prediction) removed
compute_consensus_unguarded(outputs, method) ==
    IF outputs = <<>> THEN NoPrediction(method, 0)
    ELSE Dispatch(TopPredictions(outputs), method, Len(outputs))

compute_consensus(outputs, method) ==
    IF outputs = <<>> THEN NoPrediction(method, 0)
    ELSE LET top_predictions == TopPredictions(outputs)
         IN  IF top_predictions = <<>>
             THEN NoPrediction(method, Len(outputs))
             ELSE Dispatch(top_predictions, method, Len(outputs))

-----------------------------------------------------------------------------
(* ModelRegistry: lifecycle *)

\* every model class load_models can construct
Models == {"dima_bird", "birdnet", "perch", "huggingface"}

\* the lists load_models can build: the two stubs, or DimaBird followed by
\* BirdNET (when importable) and Perch (when enabled)
CandidateLists ==
    {<<"birdnet", "huggingface">>,
     <<"dima_bird">>, <<"dima_bird", "birdnet">>, <<"dima_bird", "perch">>,
     <<"dima_bird", "birdnet", "perch">>}

InSeq(x, s) == \E i \in 1..Len(s) : s[i] = x

\* self.models[name] = model on a dict kept as its key order
DictSet(d, name) == IF InSeq(name, d) THEN d ELSE Append(d, name)

\* load_models that registers every candidate, loaded or not
RegisterAllCandidates(d, candidates, loaded) ==
    d \o SelectSeq(candidates, LAMBDA m : ~InSeq(m, d))

\* the registration loop of load_models
RECURSIVE RegisterLoaded(_, _, _)
RegisterLoaded(d, candidates, loaded) ==
    IF candidates = <<>> THEN d
    ELSE LET model == Head(candidates)
         IN  RegisterLoaded(IF loaded[model] THEN DictSet(d, model) ELSE d,
                            Tail(candidates), loaded)

\* unload_models that keeps the entries whose unload() raised
ClearUnloadedOnly(d, task) == SelectSeq(d, LAMBDA m : task[m] = "raised")

\* self.models.clear() at the end of unload_models
ClearModels(d, task) == <<>>

\* asyncio.gather(*tasks) without return_exceptions: a raising task makes
\* the awaiting coroutine raise
GatherRaising(task) ==
    IF \E m \in Models : task[m] = "raised" THEN "RuntimeError" ELSE None

\* `await asyncio.gather(*tasks, return_exceptions=True)` in load_models and
\* unload_models: the exception the await raises (None: it returns)
GatherReturnExceptions(task) == None

\* a wait that is over as soon as one task has settled
GatherFirstCompleted(task) == \E m \in Models : task[m] \in {"done", "raised"}

\* `await asyncio.gather(*tasks, ...)` is over: no task is still running
GatherDone(task) == \A m \in Models : task[m] # "running"

\* load_models up to `await asyncio.gather(*tasks, ...)`
LoadModelsStart ==
    /\ pc = "init"
    /\ \E candidates \in CandidateLists :
         /\ models_to_load' = candidates
         /\ loadTask' = [m \in Models |->
                           IF InSeq(m, candidates) THEN "running" ELSE "none"]
    /\ pc' = "loading"
    /\ UNCHANGED <<is_loaded, models, unloadTask, unloadCalls>>
    /\ UNCHANGED <<requestVars, consensusVars, harnessVars>>

\* BaseBirdModel.load() of one candidate settles: it acquires the weights,
\* returns without them, or raises and stays unloaded
LoadSettle(m) ==
    /\ pc = "loading"
    /\ loadTask[m] = "running"
    /\ \/ /\ is_loaded' = [is_loaded EXCEPT ![m] = TRUE]
          /\ loadTask' = [loadTask EXCEPT ![m] = "done"]
       \/ /\ loadTask' = [loadTask EXCEPT ![m] = "done"]
          /\ UNCHANGED is_loaded
       \/ /\ loadTask' = [loadTask EXCEPT ![m] = "raised"]
          /\ UNCHANGED is_loaded
    /\ UNCHANGED <<pc, models_to_load, models, unloadTask, unloadCalls>>
    /\ UNCHANGED <<requestVars, consensusVars, harnessVars>>

\* load_models after the gather: the registration loop, run without suspension
LoadModelsFinish ==
    /\ pc = "loading"
    /\ GatherDone(loadTask)
    /\ IF GatherReturnExceptions(loadTask) = None
       THEN /\ models' = RegisterLoaded(models, models_to_load, is_loaded)
            /\ pc' = "serving"
       ELSE /\ pc' = "crashed"
            /\ UNCHANGED models
    /\ UNCHANGED <<models_to_load, loadTask, is_loaded, unloadTask, unloadCalls>>
    /\ UNCHANGED <<requestVars, consensusVars, harnessVars>>

\* unload_models up to `await asyncio.gather(*tasks, ...)`
UnloadModelsStart ==
    /\ pc = "serving"
    /\ unloadTask' = [m \in Models |->
                        IF InSeq(m, models) THEN "running" ELSE "none"]
    /\ unloadCalls' = [m \in Models |->
                         IF InSeq(m, models) THEN unloadCalls[m] + 1
                         ELSE unloadCalls[m]]
    /\ pc' = "unloading"
    /\ UNCHANGED <<models_to_load, loadTask, is_loaded, models>>
    /\ UNCHANGED <<requestVars, consensusVars, harnessVars>>

\* BaseBirdModel.unload() of one model settles: it releases the weights, or
\* raises before or after releasing them
UnloadSettle(m) ==
    /\ pc = "unloading"
    /\ unloadTask[m] = "running"
    /\ \/ /\ is_loaded' = [is_loaded EXCEPT ![m] = FALSE]
          /\ unloadTask' = [unloadTask EXCEPT ![m] = "done"]
       \/ /\ is_loaded' = [is_loaded EXCEPT ![m] = FALSE]
          /\ unloadTask' = [unloadTask EXCEPT ![m] = "raised"]
       \/ /\ unloadTask' = [unloadTask EXCEPT ![m] = "raised"]
          /\ UNCHANGED is_loaded
    /\ UNCHANGED <<pc, models_to_load, loadTask, models, unloadCalls>>
    /\ UNCHANGED <<requestVars, consensusVars, harnessVars>>

\* unload_models after the gather
UnloadModelsFinish ==
    /\ pc = "unloading"
    /\ GatherDone(unloadTask)
    /\ IF GatherReturnExceptions(unloadTask) = None
       THEN /\ models' = ClearModels(models, unloadTask)
            /\ pc' = "stopped"
       ELSE /\ pc' = "crashed"
            /\ UNCHANGED models
    /\ UNCHANGED <<models_to_load, loadTask, is_loaded, unloadTask, unloadCalls>>
    /\ UNCHANGED <<requestVars, consensusVars, harnessVars>>

\* get_model
get_model(name) == IF InSeq(name, models) THEN name ELSE None

\* list_models
list_models == models

-----------------------------------------------------------------------------
(* ModelRegistry.predict_all *)

\* names a request can carry in its models field
NameUniverse == {"dima_bird", "birdnet", "nonexistent"}

RECURSIVE SeqsUpTo(_, _)
SeqsUpTo(S, n) ==
    IF n = 0 THEN {<<>>}
    ELSE LET shorter == SeqsUpTo(S, n - 1)
         IN  shorter \cup {Append(q, x) : q \in shorter, x \in S}

NamesArgs == {NoNames} \cup {Names(q) : q \in SeqsUpTo(NameUniverse, MaxNames)}

\* the `models` list predict_all builds from model_names
SelectModels(d, model_names) ==
    IF Truthy(model_names)
    THEN SelectSeq(model_names.value, LAMBDA name : InSeq(name, d))
    ELSE d

\* what a call hands back: the exception it raised (None if it returned)
\* and the list it returned
Raised(kind) == [exc |-> kind, outputs |-> <<>>]
Returned(outputs) == [exc |-> None, outputs |-> outputs]

\* the filter loop over results taken last first
FilterOutputsLastFirst(res) ==
    LET kept == SelectSeq(res, IsModelOutput)
    IN  Returned([k \in 1..Len(kept) |-> kept[Len(kept) + 1 - k]])

\* asyncio.gather(*tasks) without return_exceptions: the first exception
\* among the results is raised to the caller of predict_all
GatherPropagating(res) ==
    IF \E i \in 1..Len(res) : IsException(res[i])
    THEN Raised(res[CHOOSE i \in 1..Len(res) :
                       IsException(res[i])
                       /\ \A j \in 1..(i - 1) : ~IsException(res[j])].exc)
    ELSE Returned(SelectSeq(res, IsModelOutput))

\* asyncio.gather(*tasks, return_exceptions=True) followed by the filter
\* loop: exceptions are logged and dropped, ModelOutputs are kept in order
FilterOutputs(res) == Returned(SelectSeq(res, IsModelOutput))

-----------------------------------------------------------------------------
(* AudioProcessor, as far as the request handler reads it *)

\* the payload of a request: one that prepares to a silent waveform, one
\* that prepares to an audible one, PCM bytes that are not a whole number of
\* samples, a wav/ogg/mp3 payload the codec rejects, a payload of no samples
AudioKinds == {"silent", "sound", "ragged_pcm", "corrupt_file", "no_samples"}

\* what prepare_for_model raises for the payload (None: it returns):
\* np.frombuffer and the reduction of an empty array raise ValueError, the
\* audio file reader raises its own error, which is not a ValueError
Preprocess(audio) ==
    CASE audio \in {"ragged_pcm", "no_samples"} -> Exception("ValueError")
      [] audio = "corrupt_file"                 -> Exception("RuntimeError")
      [] OTHER                                  -> Exception(None)

\* a silence check that never fires
detect_silence_never(audio) == FALSE

\* detect_silence applied to the prepared waveform of the request
detect_silence(audio) == audio = "silent"

-----------------------------------------------------------------------------
(* PredictionService.process_audio_chunk *)

NoResponse == [none |-> TRUE]
IsResponse(r) == "consensus" \in DOMAIN r

ModelPrediction(output) ==
    [model_name |-> output.model_name, predictions |-> output.predictions]

PredictionResponse(model_predictions, consensus) ==
    [model_predictions |-> model_predictions, consensus |-> consensus]

_create_empty_response ==
    PredictionResponse(<<>>,
        ConsensusDict(None, None, "No bird sound detected", 0, 1,
                      "silence_detection", 0, 0))

\* steps 3 and 4 with an added rejection of an empty output list
BuildResponseRejectingEmpty(outputs) ==
    IF outputs = <<>> THEN Exception("ValueError")
    ELSE PredictionResponse([i \in 1..Len(outputs) |-> ModelPrediction(outputs[i])],
                            compute_consensus(outputs, "weighted_average"))

\* steps 3 and 4 of process_audio_chunk: consensus, then the response
BuildResponse(outputs) ==
    LET consensus_data == compute_consensus(outputs, "weighted_average")
    IN  IF IsException(consensus_data) THEN consensus_data
        ELSE PredictionResponse(
                 [i \in 1..Len(outputs) |-> ModelPrediction(outputs[i])],
                 consensus_data)

\* process_audio_chunk after `await predict_all(...)`: an exception of
\* predict_all propagates, a returned list goes on to steps 3 and 4
Respond(predicted) ==
    IF predicted.exc # None THEN Exception(predicted.exc)
    ELSE BuildResponse(predicted.outputs)

\* predict_bird_sound: the response answers 200, a ValueError 400, any other
\* exception 500
RouteStatus(resp) ==
    IF IsException(resp)
    THEN IF resp.exc = "ValueError" THEN 400 ELSE 500
    ELSE 200

\* prediction lists the models answer with while serving requests
ServedAnswers ==
    {<<>>,
     <<PredictionResult("Eurasian Blackbird", 92, 1)>>,
     <<PredictionResult("European Robin", 60, 1)>>}

\* process_audio_chunk from its entry to its first suspension point: the
\* silence gate, then predict_all up to its gather (or its early return)
ProcessAudioChunk ==
    /\ rpc = "idle"
    /\ \E audio \in AudioKinds, names \in NamesArgs :
         /\ request' = [audio |-> audio, models |-> names]
         /\ IF Preprocess(audio).exc # None
            THEN /\ response' = Preprocess(audio)
                 /\ rpc' = "done"
                 /\ http_status' = RouteStatus(response')
                 /\ UNCHANGED <<registered, tasks, results, model_outputs,
                                stored>>
            ELSE IF detect_silence(audio)
            THEN /\ response' = _create_empty_response
                 /\ rpc' = "done"
                 /\ http_status' = RouteStatus(response')
                 /\ UNCHANGED <<registered, tasks, results, model_outputs,
                                stored>>
            ELSE LET selected == SelectModels(models, names)
                 IN  /\ registered' = models
                     /\ tasks' = selected
                     /\ results' = [i \in 1..Len(selected) |-> Pending]
                     /\ IF selected = <<>>
                        THEN /\ model_outputs' = <<>>
                             /\ response' = Respond(Returned(<<>>))
                             /\ stored' = IsResponse(response')
                             /\ http_status' = RouteStatus(response')
                             /\ rpc' = "done"
                        ELSE /\ rpc' = "predicting"
                             /\ UNCHANGED <<model_outputs, response, stored,
                                            http_status>>
    /\ UNCHANGED <<lifecycleVars, consensusVars, harnessVars>>

\* one model's predict() settles: it raises, or (only when loaded) answers
PredictSettle(i) ==
    /\ rpc = "predicting"
    /\ i \in 1..Len(results)
    /\ IsPending(results[i])
    /\ \/ results' = [results EXCEPT ![i] =
                        Exception(IF is_loaded[tasks[i]] THEN "RuntimeError"
                                  ELSE "ModelNotLoadedError")]
       \/ /\ is_loaded[tasks[i]]
          /\ \E preds \in ServedAnswers :
               results' = [results EXCEPT ![i] = ModelOutput(tasks[i], preds)]
    /\ UNCHANGED <<rpc, request, registered, tasks, model_outputs, response,
                   stored, http_status>>
    /\ UNCHANGED <<lifecycleVars, consensusVars, harnessVars>>

\* the gather of predict_all is over: every predict() returned or raised
AllSettled(res) == \A i \in 1..Len(res) : ~IsPending(res[i])

\* predict_all after the gather, and the rest of process_audio_chunk
PredictAllReturn ==
    /\ rpc = "predicting"
    /\ AllSettled(results)
    /\ model_outputs' = FilterOutputs(results).outputs
    /\ response' = Respond(FilterOutputs(results))
    /\ stored' = IsResponse(response')
    /\ http_status' = RouteStatus(response')
    /\ rpc' = "done"
    /\ UNCHANGED <<request, registered, tasks, results>>
    /\ UNCHANGED <<lifecycleVars, consensusVars, harnessVars>>

\* the caller cancels its wait on the request while predict_all is suspended
\* in the gather (asyncio.wait_for timing out, a cancelled request task):
\* cancelling a gather cancels every awaitable of it that has not completed;
\* a predict() that is cancelled ends with CancelledError unless its body
\* suppresses it, and CancelledError, not being an Exception, leaves
\* predict_all and process_audio_chunk unanswered
CancelPredictAll ==
    /\ rpc = "predicting"
    /\ \E suppressing \in SUBSET {i \in 1..Len(results) : IsPending(results[i])} :
         results' = [i \in 1..Len(results) |->
                       IF IsPending(results[i]) /\ i \notin suppressing
                       THEN Exception("CancelledError")
                       ELSE results[i]]
    /\ response' = Exception("CancelledError")
    /\ rpc' = "done"
    /\ UNCHANGED <<request, registered, tasks, model_outputs, stored,
                   http_status>>
    /\ UNCHANGED <<lifecycleVars, consensusVars, harnessVars>>

\* the handler is free for the next request
NextRequest ==
    /\ rpc = "done"
    /\ rpc' = "idle"
    /\ request' = [audio |-> "silent", models |-> NoNames]
    /\ registered' = <<>>
    /\ tasks' = <<>>
    /\ results' = <<>>
    /\ model_outputs' = <<>>
    /\ response' = NoResponse
    /\ stored' = FALSE
    /\ http_status' = 0
    /\ UNCHANGED <<lifecycleVars, consensusVars, harnessVars>>

-----------------------------------------------------------------------------
(* Consensus harness: compute_consensus on every bounded input *)

OutputLists ==
    {q \in SeqsUpTo({ModelOutput("m", p) : p \in PredictionLists}, MaxOutputs) :
        TRUE}

NotComputed == [none |-> TRUE]

Compute ==
    /\ cpc = "input"
    /\ cResult' = compute_consensus(cOutputs, cMethod)
    /\ cpc' = "computed"
    /\ UNCHANGED <<cOutputs, cMethod, lifecycleVars, requestVars, harnessVars>>

\* the ConsensusPrediction of the silence short-circuit
EmptyResponse ==
    /\ cpc = "input"
    /\ cResult' = _create_empty_response.consensus
    /\ cpc' = "silence"
    /\ UNCHANGED <<cOutputs, cMethod, lifecycleVars, requestVars, harnessVars>>

-----------------------------------------------------------------------------
(* AudioEnhancer.enhance (audio_enhancement.py) *)

\* the stages in another order: band-pass first
StagesBandpassFirst == <<"bandpass", "highpass", "noise_reduction",
                         "spectral_gate", "auto_gain">>

\* the stages of enhance, in the order of its if-statements
Stages == <<"highpass", "bandpass", "noise_reduction", "spectral_gate",
            "auto_gain">>

StageSet == {"highpass", "bandpass", "noise_reduction", "spectral_gate",
             "auto_gain"}

\* sample rates, cut-offs and band edges in Hz: one rate whose Nyquist
\* frequency is at the upper band edge, one whose Nyquist is far above
SampleRates == {16000, 48000}
HighpassFreqs == {200, 8000}
BandpassLowFreqs == {1000, 7800}
BandpassHighFreqs == {8000}

EnhancementSettings ==
    [highpass_enabled : BOOLEAN, highpass_freq : HighpassFreqs,
     bandpass_enabled : BOOLEAN, bandpass_low_freq : BandpassLowFreqs,
     bandpass_high_freq : BandpassHighFreqs,
     noise_reduction_enabled : BOOLEAN,
     spectral_gate_enabled : BOOLEAN,
     auto_gain_enabled : BOOLEAN]

\* settings.<stage>_enabled
StageEnabled(s, stage) ==
    CASE stage = "highpass"        -> s.highpass_enabled
      [] stage = "bandpass"        -> s.bandpass_enabled
      [] stage = "noise_reduction" -> s.noise_reduction_enabled
      [] stage = "spectral_gate"   -> s.spectral_gate_enabled
      [] stage = "auto_gain"       -> s.auto_gain_enabled

\* the environment of one call: whether scipy and noisereduce import, and
\* the stage (if any) whose DSP library call raises
Environments ==
    [scipy : BOOLEAN, noisereduce : BOOLEAN, fault : StageSet \cup {None}]

\* a buffer: is its peak below 1e-10, and what has been applied to it
Buffer(silent) == [silent |-> silent, trace |-> <<>>]
Buffers == {Buffer(b) : b \in BOOLEAN}
\* the buffer a DSP transformation returns; a silent buffer stays silent
Transformed(audio, label) == [audio EXCEPT !.trace = Append(@, label)]

\* what the body of a stage does: return (audio, success) or raise
StageReturn(audio, success) ==
    [audio |-> audio, success |-> success, raised |-> None]
StageRaise(audio, kind) ==
    [audio |-> audio, success |-> FALSE, raised |-> kind]

\* a stage without its exception handler: what is raised propagates
Unguarded(r, audio) == r

\* try: ... except Exception: return audio, False
Guarded(r, audio) ==
    IF r.raised # None THEN StageReturn(audio, FALSE) ELSE r

_apply_highpass(audio, rate, cutoff_freq, env) ==
    IF ~env.scipy THEN StageReturn(audio, FALSE)
    ELSE Guarded(
           LET nyquist == rate \div 2 IN
           IF cutoff_freq >= nyquist THEN StageReturn(audio, FALSE)
           ELSE IF env.fault = "highpass"
                THEN StageRaise(audio, "Exception")
                ELSE StageReturn(Transformed(audio, "highpass"), TRUE),
           audio)

\* a band-pass that rejects an upper edge at or above Nyquist
_apply_bandpass_rejecting(audio, rate, low_freq, high_freq, env) ==
    IF ~env.scipy THEN StageReturn(audio, FALSE)
    ELSE Guarded(
           LET nyquist == rate \div 2
           IN IF high_freq >= nyquist \/ low_freq >= high_freq
              THEN StageReturn(audio, FALSE)
              ELSE IF env.fault = "bandpass"
                   THEN StageRaise(audio, "Exception")
                   ELSE StageReturn(Transformed(audio, "bandpass"), TRUE),
           audio)

_apply_bandpass(audio, rate, low_freq, high_freq, env) ==
    IF ~env.scipy THEN StageReturn(audio, FALSE)
    ELSE Guarded(
           LET nyquist == rate \div 2
               high == IF high_freq >= nyquist
                       THEN (nyquist * 95) \div 100
                       ELSE high_freq
           IN IF low_freq >= high THEN StageReturn(audio, FALSE)
              ELSE IF env.fault = "bandpass"
                   THEN StageRaise(audio, "Exception")
                   ELSE StageReturn(Transformed(audio, "bandpass"), TRUE),
           audio)

_apply_noise_reduction(audio, env) ==
    IF ~env.noisereduce THEN StageReturn(audio, FALSE)
    ELSE Guarded(
           IF env.fault = "noise_reduction"
           THEN StageRaise(audio, "Exception")
           ELSE StageReturn(Transformed(audio, "noise_reduction"), TRUE),
           audio)

\* the envelope is computed with numpy, then scipy.ndimage is imported;
\* except ImportError applies the simple amplitude gate and reports success
_apply_spectral_gate(audio, env) ==
    LET body == IF env.fault = "spectral_gate"
                THEN StageRaise(audio, "Exception")
                ELSE IF ~env.scipy
                     THEN StageRaise(audio, "ImportError")
                     ELSE StageReturn(Transformed(audio, "spectral_gate"),
                                      TRUE)
    IN IF body.raised = "ImportError"
       THEN StageReturn(Transformed(audio, "simple_gate"), TRUE)
       ELSE Guarded(body, audio)

_apply_auto_gain(audio, env) ==
    Guarded(
      IF env.fault = "auto_gain" THEN StageRaise(audio, "Exception")
      ELSE IF audio.silent THEN StageReturn(audio, FALSE)
           ELSE StageReturn(Transformed(audio, "auto_gain"), TRUE),
      audio)

\* the call enhance makes for one stage
ApplyStage(stage, audio, rate, s, env) ==
    CASE stage = "highpass" ->
           _apply_highpass(audio, rate, s.highpass_freq, env)
      [] stage = "bandpass" ->
           _apply_bandpass(audio, rate, s.bandpass_low_freq,
                           s.bandpass_high_freq, env)
      [] stage = "noise_reduction" -> _apply_noise_reduction(audio, env)
      [] stage = "spectral_gate"   -> _apply_spectral_gate(audio, env)
      [] stage = "auto_gain"       -> _apply_auto_gain(audio, env)

\* applied[stage]: absent, or {"enabled": True, "applied": success}
NoEntry == [present |-> FALSE, applied |-> FALSE]
Entry(success) == [present |-> TRUE, applied |-> success]

\* enhance entered: applied = {}, enhanced = audio.copy()
EnhanceStart ==
    /\ epc = "input"
    /\ epc' = "running"
    /\ eIdx' = 1
    /\ enhanced' = eAudio
    /\ applied' = [st \in StageSet |-> NoEntry]
    /\ eCalls' = <<>>
    /\ upload' = [upload EXCEPT !.calls = Append(@, "enhance")]
    /\ UNCHANGED <<eAudio, sample_rate, settings, eEnv>>
    /\ UNCHANGED <<lifecycleVars, requestVars, consensusVars, audioVars,
                   rateVars>>

\* one `if settings.<stage>_enabled:` statement of enhance
EnhanceStage ==
    /\ epc = "running"
    /\ eIdx <= Len(Stages)
    /\ LET stage == Stages[eIdx] IN
         IF StageEnabled(settings, stage)
         THEN LET r == ApplyStage(stage, enhanced, sample_rate, settings,
                                  eEnv)
              IN /\ eCalls' = Append(eCalls, [stage |-> stage,
                                              input |-> enhanced,
                                              output |-> r.audio,
                                              raised |-> r.raised])
                 /\ IF r.raised # None
                    THEN /\ epc' = "raised"
                         /\ UNCHANGED <<enhanced, applied, eIdx>>
                    ELSE /\ enhanced' = r.audio
                         /\ applied' = [applied EXCEPT
                                          ![stage] = Entry(r.success)]
                         /\ eIdx' = eIdx + 1
                         /\ UNCHANGED epc
         ELSE /\ eIdx' = eIdx + 1
              /\ UNCHANGED <<epc, enhanced, applied, eCalls>>
    /\ UNCHANGED <<eAudio, sample_rate, settings, eEnv, upload>>
    /\ UNCHANGED <<lifecycleVars, requestVars, consensusVars, audioVars,
                   rateVars>>

\* return enhanced, applied
EnhanceReturn ==
    /\ epc = "running"
    /\ eIdx > Len(Stages)
    /\ epc' = "returned"
    /\ UNCHANGED <<eAudio, sample_rate, settings, eEnv, eIdx, enhanced,
                   applied, eCalls, upload>>
    /\ UNCHANGED <<lifecycleVars, requestVars, consensusVars, audioVars,
                   rateVars>>

\* predict_upload hands the models' service the file as it was uploaded
ReencodeOriginal(audio_data, original) == original

\* predict_upload after enhance: audio_data is written out as a WAV file,
\* which becomes the audio_base64 of the AudioChunkRequest
Reencode(audio_data, original) == Transformed(audio_data, "wav")

\* nothing called yet, no audio handed to the models
NoUpload ==
    [calls |-> <<>>, predicted |-> FALSE, model_audio |-> Buffer(TRUE)]

\* predict_upload from the return of enhance on: the WAV request goes to
\* process_audio_chunk, which prepares it, checks it for silence and, unless
\* it is silent, calls predict_all with the prepared waveform
UploadProcessAudioChunk ==
    /\ epc = "returned"
    /\ upload.calls = <<"enhance">>
    /\ LET audio == Transformed(Reencode(enhanced, eAudio),
                                "prepare_for_model")
       IN upload' =
            IF audio.silent
            THEN [upload EXCEPT
                    !.calls = @ \o <<"prepare_for_model", "detect_silence">>]
            ELSE [calls |-> upload.calls \o <<"prepare_for_model",
                                              "detect_silence", "predict_all">>,
                  predicted |-> TRUE,
                  model_audio |-> audio]
    /\ UNCHANGED <<epc, eAudio, sample_rate, settings, eEnv, eIdx, enhanced,
                   applied, eCalls>>
    /\ UNCHANGED <<lifecycleVars, requestVars, consensusVars, audioVars,
                   rateVars>>

-----------------------------------------------------------------------------
(* AudioProcessor (audio_processor.py) on waveforms *)
(* A sample is the exact fraction <<numerator, denominator>> in lowest     *)
(* terms; a waveform is a sequence of samples.                             *)

\* longest waveform and payload
MaxLen == 4
\* largest target_samples of a processor
MaxTarget == 4

RECURSIVE GCD(_, _)
GCD(a, b) == IF b = 0 THEN a ELSE GCD(b, a % b)

Abs(n) == IF n < 0 THEN -n ELSE n

\* n / d in lowest terms with a positive denominator (d # 0)
Frac(n, d) ==
    LET g == GCD(Abs(n), Abs(d))
        sgn == IF d < 0 THEN -1 ELSE 1
    IN <<(sgn * n) \div g, (sgn * d) \div g>>

Zero == <<0, 1>>
One == <<1, 1>>
FracAbs(x) == <<Abs(x[1]), x[2]>>
FracLess(x, y) == x[1] * y[2] < y[1] * x[2]
FracLeq(x, y) == x[1] * y[2] <= y[1] * x[2]
\* x / y, y # 0
FracDiv(x, y) == Frac(x[1] * y[2], x[2] * y[1])

\* np.abs(audio).max() of a non-empty array
RECURSIVE PeakFrom(_, _, _)
PeakFrom(audio, i, best) ==
    IF i > Len(audio) THEN best
    ELSE PeakFrom(audio, i + 1,
                  IF FracLess(best, FracAbs(audio[i])) THEN FracAbs(audio[i])
                  ELSE best)
Peak(audio) == PeakFrom(audio, 1, Zero)

\* a function's result: the array it returns, or the exception it raises
Ok(audio) == [exc |-> None, audio |-> audio]
Raises(kind) == [exc |-> kind, audio |-> <<>>]

\* the default target_sample_rate of the processor, in Hz
target_sample_rate == 48000
\* the divisor that maps 16-bit PCM codes to [-1, 1)
PcmFullScale == 32768

\* AudioProcessor(target_sample_rate, target_duration_sec): target_samples is
\* int(rate * duration), the duration being the fraction dur
AudioProcessor(rate, dur) ==
    [target_sample_rate |-> rate,
     target_duration_sec |-> dur,
     target_samples |-> (rate * dur[1]) \div dur[2]]

\* processors whose window holds 0 .. MaxTarget samples
Processors ==
    {AudioProcessor(target_sample_rate, <<k, target_sample_rate>>) :
        k \in 0..MaxTarget}

\* what the formats carry: PCM payloads hold 16-bit integer codes, float32
\* payloads hold the floats themselves (not confined to [-1, 1]), an audio
\* file holds what its reader returns (here a recording whose samples have
\* amplitude 1e-5 at most)
AudioFormats == {"pcm16_le", "float32", "wav", "flac"}
PayloadValues(format) ==
    CASE format = "pcm16_le" -> {<<-32768, 1>>, <<0, 1>>, <<16384, 1>>}
      [] format = "float32"  -> {<<-3, 2>>, <<0, 1>>, <<1, 2>>}
      [] OTHER               -> {<<-1, 100000>>, <<0, 1>>, <<1, 100000>>}

\* what can be wrong with a payload: the base64 text, the byte count (not a
\* whole number of samples), the contents of an audio file
Defects(format) ==
    {"none", "base64"} \cup
    (IF format \in {"pcm16_le", "float32"} THEN {"ragged"} ELSE {}) \cup
    (IF format = "wav" THEN {"corrupt"} ELSE {})

\* the arguments of prepare_for_model, and the resampling library installed
RawInputs ==
    UNION {[audio_format : {f}, defect : Defects(f),
            payload : SeqsUpTo(PayloadValues(f), MaxLen),
            source_sample_rate : {16000, 48000, 96000},
            resampler : {"librosa", "scipy"}] : f \in AudioFormats}

_decode_pcm16(payload) ==
    [i \in 1..Len(payload) |-> FracDiv(payload[i], <<PcmFullScale, 1>>)]

\* sf.read: the samples of the file, or the reader's error for bytes that
\* are not an audio file
_decode_audio_file(raw) ==
    IF raw.defect = "corrupt" THEN Raises("RuntimeError")
    ELSE Ok(raw.payload)

decode_base64_audio(raw) ==
    IF raw.defect = "base64" THEN Raises("ValueError")
    ELSE CASE raw.audio_format = "pcm16_le" ->
                IF raw.defect = "ragged" THEN Raises("ValueError")
                ELSE Ok(_decode_pcm16(raw.payload))
           [] raw.audio_format = "float32" ->
                IF raw.defect = "ragged" THEN Raises("ValueError")
                ELSE Ok(raw.payload)
           [] raw.audio_format \in {"wav", "ogg_opus", "mp3"} ->
                _decode_audio_file(raw)
           [] OTHER -> Raises("ValueError")

\* the resampled length: librosa rounds n * target / source up, the scipy
\* branch truncates; every output sample is taken from the input sample at
\* the same instant (the interpolation itself is the library's)
resample(audio, source_sr, target_sr, resampler) ==
    IF source_sr = target_sr THEN audio
    ELSE LET n == Len(audio)
             num_samples ==
                 IF resampler = "librosa"
                 THEN (n * target_sr + source_sr - 1) \div source_sr
                 ELSE (n * target_sr) \div source_sr
         IN [i \in 1..num_samples |->
                LET j == ((i - 1) * source_sr) \div target_sr + 1
                IN audio[IF j > n THEN n ELSE j]]

\* np.abs(audio).max() raises ValueError for an array of no elements
normalize(audio) ==
    IF audio = <<>> THEN Raises("ValueError")
    ELSE LET peak == Peak(audio) IN
         IF FracLess(Zero, peak)
         THEN Ok([i \in 1..Len(audio) |-> FracDiv(audio[i], peak)])
         ELSE Ok(audio)

Zeros(k) == [i \in 1..k |-> Zero]

\* pad_or_trim with the odd zero in front
pad_or_trim_odd_zero_first(audio, target_samples) ==
    IF Len(audio) > target_samples
    THEN LET start == (Len(audio) - target_samples) \div 2
         IN SubSeq(audio, start + 1, start + target_samples)
    ELSE IF Len(audio) < target_samples
    THEN LET padding == target_samples - Len(audio)
             pad_right == padding \div 2
             pad_left == padding - pad_right
         IN Zeros(pad_left) \o audio \o Zeros(pad_right)
    ELSE audio

pad_or_trim(audio, target_samples) ==
    IF Len(audio) > target_samples
    THEN LET start == (Len(audio) - target_samples) \div 2
         IN SubSeq(audio, start + 1, start + target_samples)
    ELSE IF Len(audio) < target_samples
    THEN LET padding == target_samples - Len(audio)
             pad_left == padding \div 2
             pad_right == padding - pad_left
         IN Zeros(pad_left) \o audio \o Zeros(pad_right)
    ELSE audio

\* decode, resample, normalize, pad_or_trim; an exception ends the call
prepare_for_model(raw, proc) ==
    LET decoded == decode_base64_audio(raw) IN
    IF decoded.exc # None THEN decoded
    ELSE LET resampled == resample(decoded.audio, raw.source_sample_rate,
                                   proc.target_sample_rate, raw.resampler)
             normalized == normalize(resampled)
         IN IF normalized.exc # None THEN normalized
            ELSE Ok(pad_or_trim(normalized.audio, proc.target_samples))

\* waveforms handed to normalize and pad_or_trim directly
Waveforms == SeqsUpTo(PayloadValues("float32"), MaxLen)

NotCalled == [exc |-> None, audio |-> <<>>]

\* pad_or_trim(aWave) on a processor
CallPadOrTrim ==
    /\ apc = "input"
    /\ aOut' = Ok(pad_or_trim(aWave, processor.target_samples))
    /\ apc' = "pad_or_trim"
    /\ UNCHANGED <<aWave, aRaw, processor, aFirst, aGate>>
    /\ UNCHANGED <<lifecycleVars, requestVars, consensusVars, enhanceVars,
                   rateVars>>

\* normalize(aWave)
CallNormalize ==
    /\ apc = "input"
    /\ aOut' = normalize(aWave)
    /\ apc' = "normalize"
    /\ UNCHANGED <<aWave, aRaw, processor, aFirst, aGate>>
    /\ UNCHANGED <<lifecycleVars, requestVars, consensusVars, enhanceVars,
                   rateVars>>

\* normalize applied to what normalize(aWave) returned
CallNormalizeAgain ==
    /\ apc = "normalize"
    /\ aOut.exc = None
    /\ aFirst' = aOut
    /\ aOut' = normalize(aOut.audio)
    /\ apc' = "normalize_twice"
    /\ UNCHANGED <<aWave, aRaw, processor, aGate>>
    /\ UNCHANGED <<lifecycleVars, requestVars, consensusVars, enhanceVars,
                   rateVars>>

\* prepare_for_model(aRaw) on a processor
CallPrepareForModel ==
    /\ apc = "input"
    /\ aOut' = prepare_for_model(aRaw, processor)
    /\ apc' = "prepare_for_model"
    /\ UNCHANGED <<aWave, aRaw, processor, aFirst, aGate>>
    /\ UNCHANGED <<lifecycleVars, requestVars, consensusVars, enhanceVars,
                   rateVars>>

\* x + y
FracAdd(x, y) == Frac(x[1] * y[2] + y[1] * x[2], x[2] * y[2])

\* the sum of audio[i] ** 2
RECURSIVE SumSquares(_, _)
SumSquares(audio, i) ==
    IF i > Len(audio) THEN Zero
    ELSE FracAdd(Frac(audio[i][1] * audio[i][1], audio[i][2] * audio[i][2]),
                 SumSquares(audio, i + 1))

\* np.mean(audio ** 2) of a non-empty array
MeanSquare(audio) ==
    LET total == SumSquares(audio, 1)
    IN Frac(total[1], total[2] * Len(audio))

\* 10 ** (-40 / 20), squared: the default threshold_db as a mean square
SilenceMeanSquare == <<1, 10000>>

\* detect_silence on a waveform, threshold_db = -40:
\* 20 * log10(rms + 1e-10) < -40 iff rms < 0.01 - 1e-10; the mean squares
\* of the model have denominators far below 5e7, where that is the same as
\* mean square < 1e-4
detect_silence_waveform(audio) ==
    FracLess(MeanSquare(audio), SilenceMeanSquare)

\* process_audio_chunk up to its silence gate: prepare_for_model with
\* normalize=True, then detect_silence on what it returned
CallSilenceGate ==
    /\ apc = "input"
    /\ aOut' = prepare_for_model(aRaw, processor)
    /\ aGate' = IF aOut'.exc # None THEN "raised"
                ELSE IF aOut'.audio # <<>> /\ detect_silence_waveform(aOut'.audio)
                     THEN "silence_detection"
                     ELSE "predict_all"
    /\ apc' = "process_audio_chunk"
    /\ UNCHANGED <<aWave, aRaw, processor, aFirst>>
    /\ UNCHANGED <<lifecycleVars, requestVars, consensusVars, enhanceVars,
                   rateVars>>

-----------------------------------------------------------------------------
(* RateLimiter (core/rate_limiter.py) *)

Threads == {"t1", "t2"}
Clients == {"key:a", "ip:b"}

\* the sliding windows of cleanup, in seconds
MinuteWindow == 60
HourWindow == 3600

\* how often the clock advances, how many calls are made
MaxTicks == 3
MaxCalls == 4

\* amounts by which the clock advances between two readings
ClockSteps == {30, 3540}

\* RateLimitConfig, with limits small enough to be reached
RateLimitConfigs ==
    {[requests_per_minute |-> 2, requests_per_hour |-> 3],
     [requests_per_minute |-> 1, requests_per_hour |-> 2]}

\* ClientState(): the entry the defaultdict makes on first access
ClientState == [minute_requests |-> <<>>, hour_requests |-> <<>>]

\* ClientState.cleanup
cleanup(state, now) ==
    LET minute_ago == now - MinuteWindow
        hour_ago == now - HourWindow
    IN  [minute_requests |->
             SelectSeq(state.minute_requests, LAMBDA t : t > minute_ago),
         hour_requests |->
             SelectSeq(state.hour_requests, LAMBDA t : t > hour_ago)]

\* the body of `with self._lock:` in is_allowed: what it returns and the
\* client's state it leaves
is_allowed(state, now) ==
    LET cleaned == cleanup(state, now)
    IN  IF Len(cleaned.minute_requests) >= config.requests_per_minute
        THEN [allowed |-> FALSE, reason |-> "Rate limit exceeded",
              state |-> cleaned]
        ELSE IF Len(cleaned.hour_requests) >= config.requests_per_hour
        THEN [allowed |-> FALSE, reason |-> "Hourly limit exceeded",
              state |-> cleaned]
        ELSE [allowed |-> TRUE, reason |-> None,
              state |-> [minute_requests |->
                             Append(cleaned.minute_requests, now),
                         hour_requests |->
                             Append(cleaned.hour_requests, now)]]

\* time passes
Tick ==
    /\ ticks < MaxTicks
    /\ \E d \in ClockSteps : clock' = clock + d
    /\ ticks' = ticks + 1
    /\ UNCHANGED <<config, _clients, lpc, tClient, tNow, ncalls, granted>>
    /\ UNCHANGED <<lifecycleVars, requestVars, consensusVars, enhanceVars,
                   audioVars>>

\* a thread enters is_allowed: `now = time.time()`, before the lock is taken
ReadTime(t) ==
    /\ lpc[t] = "idle"
    /\ ncalls < MaxCalls
    /\ \E c \in Clients : tClient' = [tClient EXCEPT ![t] = c]
    /\ tNow' = [tNow EXCEPT ![t] = clock]
    /\ lpc' = [lpc EXCEPT ![t] = "at_lock"]
    /\ ncalls' = ncalls + 1
    /\ UNCHANGED <<clock, ticks, config, _clients, granted>>
    /\ UNCHANGED <<lifecycleVars, requestVars, consensusVars, enhanceVars,
                   audioVars>>

\* the thread gets the lock and runs the locked body to its return
LockedBody(t) ==
    /\ lpc[t] = "at_lock"
    /\ LET r == is_allowed(_clients[tClient[t]], tNow[t])
       IN  /\ _clients' = [_clients EXCEPT ![tClient[t]] = r.state]
           /\ granted' = IF r.allowed
                         THEN [granted EXCEPT ![tClient[t]] = Append(@, tNow[t])]
                         ELSE granted
    /\ lpc' = [lpc EXCEPT ![t] = "idle"]
    /\ tNow' = [tNow EXCEPT ![t] = 0]
    /\ UNCHANGED <<clock, ticks, config, tClient, ncalls>>
    /\ UNCHANGED <<lifecycleVars, requestVars, consensusVars, enhanceVars,
                   audioVars>>

-----------------------------------------------------------------------------
(* Specifications *)

InitLifecycle ==
    /\ pc = "init"
    /\ models_to_load = <<>>
    /\ loadTask = [m \in Models |-> "none"]
    /\ is_loaded = [m \in Models |-> FALSE]
    /\ models = <<>>
    /\ unloadTask = [m \in Models |-> "none"]
    /\ unloadCalls = [m \in Models |-> 0]

InitRequest ==
    /\ rpc = "idle"
    /\ request = [audio |-> "silent", models |-> NoNames]
    /\ registered = <<>>
    /\ tasks = <<>>
    /\ results = <<>>
    /\ model_outputs = <<>>
    /\ response = NoResponse
    /\ stored = FALSE
    /\ http_status = 0

InitConsensusIdle ==
    /\ cpc = "input"
    /\ cOutputs = <<>>
    /\ cMethod = "weighted_average"
    /\ cResult = NotComputed

InitEnhanceLocals ==
    /\ epc = "input"
    /\ eIdx = 1
    /\ enhanced = Buffer(TRUE)
    /\ applied = [st \in StageSet |-> NoEntry]
    /\ eCalls = <<>>
    /\ upload = NoUpload

InitEnhanceIdle ==
    /\ eAudio = Buffer(TRUE)
    /\ sample_rate = 48000
    /\ settings \in {s \in EnhancementSettings :
                       \A st \in StageSet : ~StageEnabled(s, st)}
    /\ settings.highpass_freq = 200
    /\ settings.bandpass_low_freq = 1000
    /\ eEnv = [scipy |-> TRUE, noisereduce |-> TRUE, fault |-> None]
    /\ InitEnhanceLocals

DefaultRawInput ==
    [audio_format |-> "pcm16_le", defect |-> "none", payload |-> <<>>,
     source_sample_rate |-> target_sample_rate, resampler |-> "librosa"]

InitAudioLocals ==
    /\ apc = "input"
    /\ aOut = NotCalled
    /\ aFirst = NotCalled
    /\ aGate = "none"

InitAudioIdle ==
    /\ processor = AudioProcessor(target_sample_rate, <<0, 1>>)
    /\ aWave = <<>>
    /\ aRaw = DefaultRawInput
    /\ InitAudioLocals

InitRateLocals ==
    /\ clock = 0
    /\ ticks = 0
    /\ _clients = [c \in Clients |-> ClientState]
    /\ lpc = [t \in Threads |-> "idle"]
    /\ tClient = [t \in Threads |-> "key:a"]
    /\ tNow = [t \in Threads |-> 0]
    /\ ncalls = 0
    /\ granted = [c \in Clients |-> <<>>]

InitRateIdle ==
    /\ config = [requests_per_minute |-> 2, requests_per_hour |-> 3]
    /\ InitRateLocals

Init ==
    /\ InitLifecycle
    /\ InitRequest
    /\ InitConsensusIdle
    /\ InitEnhanceIdle
    /\ InitAudioIdle
    /\ InitRateIdle

Next ==
    \/ LoadModelsStart
    \/ \E m \in Models : LoadSettle(m)
    \/ LoadModelsFinish
    \/ UnloadModelsStart
    \/ \E m \in Models : UnloadSettle(m)
    \/ UnloadModelsFinish
    \/ ProcessAudioChunk
    \/ \E i \in 1..(MaxNames + Cardinality(Models)) : PredictSettle(i)
    \/ PredictAllReturn
    \/ NextRequest

Spec == Init /\ [][Next]_vars

\* the guard of PredictAllReturn, which always changes rpc
PredictAllReturnEnabled == rpc = "predicting" /\ AllSettled(results)

\* every started load() and predict() settles, and the event loop resumes a
\* coroutine whose gather is over (the last conjunct is weak fairness of
\* PredictAllReturn with its enabling condition written out)
Fairness ==
    /\ WF_vars(\E m \in Models : LoadSettle(m))
    /\ WF_vars(LoadModelsFinish)
    /\ WF_vars(\E i \in 1..(MaxNames + Cardinality(Models)) : PredictSettle(i))
    /\ \/ []<>~PredictAllReturnEnabled
       \/ []<><<PredictAllReturn>>_vars

\* one load_models call and one request, without shutdown
NextFair ==
    \/ LoadModelsStart
    \/ \E m \in Models : LoadSettle(m)
    \/ LoadModelsFinish
    \/ ProcessAudioChunk
    \/ \E i \in 1..(MaxNames + Cardinality(Models)) : PredictSettle(i)
    \/ PredictAllReturn

SpecFair == Init /\ [][NextFair]_vars /\ Fairness

\* the same with a caller that may cancel its wait
NextCancel == NextFair \/ CancelPredictAll

SpecCancel == Init /\ [][NextCancel]_vars

InitConsensus ==
    /\ InitLifecycle
    /\ InitRequest
    /\ cpc = "input"
    /\ cOutputs \in OutputLists
    /\ cMethod \in Methods
    /\ cResult = NotComputed
    /\ InitEnhanceIdle
    /\ InitAudioIdle
    /\ InitRateIdle

NextConsensus == Compute \/ EmptyResponse

SpecConsensus == InitConsensus /\ [][NextConsensus]_vars

InitEnhance ==
    /\ InitLifecycle
    /\ InitRequest
    /\ InitConsensusIdle
    /\ eAudio \in Buffers
    /\ sample_rate \in SampleRates
    /\ settings \in EnhancementSettings
    /\ eEnv \in Environments
    /\ InitEnhanceLocals
    /\ InitAudioIdle
    /\ InitRateIdle

NextEnhance ==
    \/ EnhanceStart
    \/ EnhanceStage
    \/ EnhanceReturn
    \/ UploadProcessAudioChunk

SpecEnhance == InitEnhance /\ [][NextEnhance]_vars

\* either a waveform for the direct calls, or arguments for prepare_for_model
InitAudio ==
    /\ InitLifecycle
    /\ InitRequest
    /\ InitConsensusIdle
    /\ InitEnhanceIdle
    /\ processor \in Processors
    /\ \/ aWave \in Waveforms /\ aRaw = DefaultRawInput
       \/ aWave = <<>> /\ aRaw \in RawInputs
    /\ InitAudioLocals
    /\ InitRateIdle

NextAudio ==
    \/ CallPadOrTrim
    \/ CallNormalize
    \/ CallNormalizeAgain
    \/ CallPrepareForModel
    \/ CallSilenceGate

SpecAudio == InitAudio /\ [][NextAudio]_vars

InitRate ==
    /\ InitLifecycle
    /\ InitRequest
    /\ InitConsensusIdle
    /\ InitEnhanceIdle
    /\ InitAudioIdle
    /\ config \in RateLimitConfigs
    /\ InitRateLocals

NextRate ==
    \/ Tick
    \/ \E t \in Threads : ReadTime(t)
    \/ \E t \in Threads : LockedBody(t)

SpecRate == InitRate /\ [][NextRate]_vars

-----------------------------------------------------------------------------
(* Properties *)

ToSet(s) == {s[i] : i \in 1..Len(s)}
Succeeded == {i \in 1..Len(results) : IsModelOutput(results[i])}
Failed == {i \in 1..Len(results) : IsException(results[i])}
Inferring == rpc = "done" /\ request.audio = "sound"

\* C1: predict_all never raises because a model's predict raised; it returns
\* exactly the ModelOutputs of the selected models whose predict succeeded,
\* and the empty list when nothing is registered or every selected model fails.
C1_PredictAllDropsFailures ==
    Inferring =>
        /\ ~(IsException(response)
             /\ response.exc \in {"RuntimeError", "ModelNotLoadedError"})
        /\ Len(model_outputs) = Cardinality(Succeeded)
        /\ \A i \in Succeeded : InSeq(results[i], model_outputs)
        /\ \A j \in 1..Len(model_outputs) :
             \E i \in Succeeded : results[i] = model_outputs[j]
        /\ (registered = <<>> \/ Succeeded = {}) => model_outputs = <<>>

C1_Witness ==
    /\ Inferring
    /\ Failed # {}
    /\ Succeeded # {}
    /\ Len(model_outputs) = Cardinality(Succeeded)

\* C2: when k of the n selected models raise, the orchestrator's consensus is
\* computed over the n-k returned outputs and reports total_models = n-k.
C2_TotalModelsCountsReturned ==
    Inferring =>
        /\ IsResponse(response)
        /\ Len(response.model_predictions) = Len(tasks) - Cardinality(Failed)
        /\ response.consensus.total_models = Len(tasks) - Cardinality(Failed)

C2_Witness ==
    /\ Inferring
    /\ Len(registered) = 3
    /\ Len(tasks) = 3
    /\ Cardinality(Failed) = 1
    /\ Len(response.model_predictions) = 2
    /\ response.consensus.total_models = 2

\* C3: a silent waveform short-circuits the request: the consensus has method
\* silence_detection, agreement_count 0 and total_models 0, there are no
\* model predictions, and no model's predict is invoked.
C3_SilenceShortCircuits ==
    (rpc # "idle" /\ request.audio = "silent") =>
        /\ rpc = "done"
        /\ tasks = <<>>
        /\ IsResponse(response)
        /\ response.model_predictions = <<>>
        /\ response.consensus.method = "silence_detection"
        /\ response.consensus.agreement_count = 0
        /\ response.consensus.total_models = 0

C3_Witness ==
    /\ rpc = "done"
    /\ request.audio = "silent"
    /\ models # <<>>
    /\ response.consensus.method = "silence_detection"

C5_RegistersExactlyLoaded ==
    /\ pc # "crashed"
    /\ pc = "serving" =>
        /\ ToSet(models) = {m \in ToSet(models_to_load) : is_loaded[m]}
        /\ \A m \in Models : loadTask[m] = "raised" => ~InSeq(m, models)

C5_Witness ==
    /\ pc = "serving"
    /\ \E m \in Models : loadTask[m] = "raised" /\ ~InSeq(m, models)
    /\ models # <<>>

\* C6: in every observable state each model in the mapping is loaded.
C6_RegisteredAreLoaded ==
    \A i \in 1..Len(models) : is_loaded[models[i]]

\* C7: unload_models issues unload() once for every model registered when it
\* is called and then clears the mapping, also when an unload() raises.
C7_UnloadClearsMapping ==
    /\ pc # "crashed"
    /\ pc = "unloading" =>
         \A m \in Models : unloadCalls[m] = IF InSeq(m, models) THEN 1 ELSE 0
    /\ pc = "stopped" =>
         /\ list_models = <<>>
         /\ \A name \in Models \cup NameUniverse : get_model(name) = None
         /\ \A m \in Models : unloadCalls[m] = IF unloadTask[m] = "none" THEN 0 ELSE 1

C7_Witness ==
    /\ pc = "stopped"
    /\ \E m \in Models : unloadTask[m] = "raised"
    /\ \E m \in Models : unloadTask[m] = "done"
    /\ list_models = <<>>

\* C8: with a names argument predict_all invokes predict on exactly the
\* registered models whose name appears in names; without one, on every
\* registered model.
C8_SelectsNamedSubset ==
    (rpc \in {"predicting", "done"} /\ request.audio = "sound") =>
        ToSet(tasks) =
            IF request.models.is_none THEN ToSet(registered)
            ELSE {n \in ToSet(registered) : InSeq(n, request.models.value)}

\* C9: compute_consensus never raises when no model contributed a prediction:
\* under every method it returns the "No prediction" sentinel with confidence
\* 0.0 and agreement_count 0 (total_models 0 for the empty list).
C9_NoPredictionSentinel ==
    (cpc = "computed" /\ \A i \in 1..Len(cOutputs) : cOutputs[i].predictions = <<>>) =>
        /\ ~IsException(cResult)
        /\ cResult.species_common = "No prediction"
        /\ cResult.confidence.num = 0
        /\ cResult.agreement_count = 0
        /\ cResult.method = cMethod
        /\ cOutputs = <<>> => cResult.total_models = 0

C9_Witness ==
    /\ cpc = "computed"
    /\ cMethod = "majority_vote"
    /\ Len(cOutputs) = 2
    /\ \A i \in 1..Len(cOutputs) : cOutputs[i].predictions = <<>>
    /\ cResult.species_common = "No prediction"

\* the outputs whose top-1 prediction names species s, and their summed
\* top-1 confidence
Voters(s) ==
    {i \in 1..Len(cOutputs) :
        cOutputs[i].predictions # <<>>
        /\ cOutputs[i].predictions[1].species_common = s}
RECURSIVE SumTop(_)
SumTop(I) ==
    IF I = {} THEN 0
    ELSE LET i == CHOOSE x \in I : TRUE
         IN  cOutputs[i].predictions[1].confidence + SumTop(I \ {i})

\* C10: under weighted_average the winner is the common_name group with the
\* highest summed top-1 confidence; confidence is that sum divided by the
\* group's member count and agreement_count is the member count.
C10_WeightedAverageBySum ==
    (cpc = "computed" /\ cMethod = "weighted_average"
        /\ \E s \in Species : Voters(s) # {}) =>
        /\ ~IsException(cResult)
        /\ cResult.species_common \in Species
        /\ \A s \in Species :
             SumTop(Voters(s)) <= SumTop(Voters(cResult.species_common))
        /\ cResult.confidence.num = SumTop(Voters(cResult.species_common))
        /\ cResult.confidence.den = Cardinality(Voters(cResult.species_common))
        /\ cResult.agreement_count = Cardinality(Voters(cResult.species_common))
        /\ (/\ Len(cOutputs) = 2
            /\ Voters("Eurasian Blackbird") = {1, 2}
            /\ {cOutputs[1].predictions[1].confidence,
                cOutputs[2].predictions[1].confidence} = {92, 88})
           => /\ cResult.confidence.num = 90 * cResult.confidence.den
              /\ cResult.agreement_count = 2
              /\ cResult.total_models = 2

\* the winner has the highest sum although another group has a higher mean
C10_Witness ==
    /\ cpc = "computed"
    /\ cMethod = "weighted_average"
    /\ Voters("European Robin") = {1, 3}
    /\ Voters("Eurasian Blackbird") = {2}
    /\ SumTop(Voters("European Robin")) = 120
    /\ SumTop(Voters("Eurasian Blackbird")) = 92
    /\ cResult.species_common = "European Robin"
    /\ cResult.agreement_count = 2

\* every species named by some top-1 prediction, and the position of the
\* first output that names s
Voted == {s \in Species : Voters(s) # {}}
FirstVoter(s) == CHOOSE i \in Voters(s) : \A j \in Voters(s) : i <= j

\* C11: under majority_vote the winner is the common_name with the most
\* top-1 occurrences, a tie in count goes to the name seen first in the
\* input, confidence is the mean confidence of the agreeing models and
\* agreement_count is that count.
C11_MajorityVote ==
    (cpc = "computed" /\ cMethod = "majority_vote" /\ Voted # {}) =>
        /\ ~IsException(cResult)
        /\ cResult.species_common \in Voted
        /\ \A s \in Voted :
             \/ Cardinality(Voters(s)) < Cardinality(Voters(cResult.species_common))
             \/ /\ Cardinality(Voters(s)) = Cardinality(Voters(cResult.species_common))
                /\ FirstVoter(cResult.species_common) <= FirstVoter(s)
        /\ cResult.confidence.num = SumTop(Voters(cResult.species_common))
        /\ cResult.confidence.den = Cardinality(Voters(cResult.species_common))
        /\ cResult.agreement_count = Cardinality(Voters(cResult.species_common))

\* a one-to-one tie won by the name seen first
C11_Witness ==
    /\ cpc = "computed"
    /\ cMethod = "majority_vote"
    /\ Len(cOutputs) = 2
    /\ Voters("European Robin") = {1}
    /\ Voters("Eurasian Blackbird") = {2}
    /\ cResult.species_common = "European Robin"
    /\ cResult.agreement_count = 1

\* the highest top-1 confidence among the outputs
MaxTop ==
    CHOOSE c \in Confidences :
        /\ \E s \in Species : \E i \in Voters(s) :
             cOutputs[i].predictions[1].confidence = c
        /\ \A s \in Species : \A i \in Voters(s) :
             cOutputs[i].predictions[1].confidence <= c

\* C12: under max_confidence the winner is the top-1 prediction with the
\* highest confidence across all models, the reported confidence is that
\* prediction's, and agreement_count is the number of models whose top-1
\* common_name equals the winner's (at least 1).
C12_MaxConfidence ==
    (cpc = "computed" /\ cMethod = "max_confidence" /\ Voted # {}) =>
        /\ ~IsException(cResult)
        /\ cResult.species_common \in Voted
        /\ \E i \in Voters(cResult.species_common) :
             cOutputs[i].predictions[1].confidence = MaxTop
        /\ cResult.confidence.num = MaxTop
        /\ cResult.confidence.den = 1
        /\ cResult.agreement_count = Cardinality(Voters(cResult.species_common))
        /\ cResult.agreement_count >= 1

\* Blackbird at 0.60 first, Robin at 0.92 second: Robin wins, agreement 1
C12_Witness ==
    /\ cpc = "computed"
    /\ cMethod = "max_confidence"
    /\ Len(cOutputs) = 2
    /\ Voters("Eurasian Blackbird") = {1}
    /\ Voters("European Robin") = {2}
    /\ cOutputs[1].predictions[1].confidence = 60
    /\ cOutputs[2].predictions[1].confidence = 92
    /\ cResult.species_common = "European Robin"
    /\ cResult.confidence.num = 92
    /\ cResult.agreement_count = 1

\* C13: for each method total_models equals the length of the outputs list;
\* an output with an empty prediction list does not vote but is counted.
C13_TotalModelsIsLen ==
    cpc = "computed" =>
        /\ ~IsException(cResult)
        /\ cResult.total_models = Len(cOutputs)
        /\ cResult.agreement_count <= Cardinality(UNION {Voters(s) : s \in Species})

C13_Witness ==
    /\ cpc = "computed"
    /\ cMethod = "max_confidence"
    /\ Len(cOutputs) = 2
    /\ cOutputs[2].predictions = <<>>
    /\ Voters("Eurasian Blackbird") = {1}
    /\ cResult.agreement_count = 1
    /\ cResult.total_models = 2

\* C14: every ConsensusResult produced by compute_consensus and by the
\* silence short-circuit has agreement_count <= total_models.
C14_AgreementAtMostTotal ==
    cpc \in {"computed", "silence"} =>
        /\ ~IsException(cResult)
        /\ cResult.agreement_count <= cResult.total_models

C14_Witness ==
    /\ cpc = "computed"
    /\ cMethod = "weighted_average"
    /\ Len(cOutputs) = 3
    /\ cResult.agreement_count = 3
    /\ cResult.total_models = 3

-----------------------------------------------------------------------------
(* AudioEnhancer *)

\* the stages of a call log, in call order
CalledStages == [n \in 1..Len(eCalls) |-> eCalls[n].stage]

IsPrefix(p, q) == Len(p) <= Len(q) /\ SubSeq(q, 1, Len(p)) = p

\* high-pass, band-pass, noise reduction, spectral gate, auto-gain, less
\* the stages the settings disable
EnabledInFixedOrder ==
    SelectSeq(<<"highpass", "bandpass", "noise_reduction", "spectral_gate",
                "auto_gain">>,
              LAMBDA st : StageEnabled(settings, st))

\* C15: enhance invokes exactly the enabled stages, in the order high-pass,
\* band-pass, noise reduction, spectral gate, auto-gain whatever the flags
\* are; a disabled stage is never invoked; the first stage invoked gets the
\* input audio, every later one the buffer the previous invoked stage
\* returned, and enhance returns the buffer of the last one.
C15_FixedStageOrder ==
    /\ IsPrefix(CalledStages, EnabledInFixedOrder)
    /\ \A n \in 1..Len(eCalls) :
         /\ StageEnabled(settings, eCalls[n].stage)
         /\ eCalls[n].input = IF n = 1 THEN eAudio ELSE eCalls[n - 1].output
    /\ epc = "returned" =>
         /\ CalledStages = EnabledInFixedOrder
         /\ enhanced = IF eCalls = <<>> THEN eAudio
                       ELSE eCalls[Len(eCalls)].output

\* high-pass and band-pass both ran and changed the buffer, a later stage
\* was disabled and another one ran
C15_Witness ==
    /\ epc = "returned"
    /\ settings.highpass_enabled /\ settings.bandpass_enabled
    /\ ~settings.noise_reduction_enabled
    /\ settings.auto_gain_enabled
    /\ Len(eCalls) >= 3
    /\ eCalls[1].stage = "highpass" /\ eCalls[2].stage = "bandpass"
    /\ eCalls[2].input = Transformed(eAudio, "highpass")
    /\ eCalls[2].output # eCalls[2].input

\* the library a stage imports is missing
MissingCapability(stage) ==
    \/ stage \in {"highpass", "bandpass", "spectral_gate"} /\ ~eEnv.scipy
    \/ stage = "noise_reduction" /\ ~eEnv.noisereduce

\* the stage's call fails: missing capability, an exception inside the
\* stage, or silent input for auto-gain
StageFails(call) ==
    \/ MissingCapability(call.stage)
    \/ eEnv.fault = call.stage
    \/ call.stage = "auto_gain" /\ call.input.silent

\* the spectral gate reaches its import of scipy.ndimage and the import fails
GateFallsBack(call) ==
    call.stage = "spectral_gate" /\ ~eEnv.scipy /\ eEnv.fault # call.stage

\* the stage was skipped: buffer passed through, applied = false recorded
Skipped(call) ==
    /\ call.raised = None
    /\ call.output = call.input
    /\ applied[call.stage] = Entry(FALSE)

\* C16 as stated: whenever an enabled stage fails (missing DSP capability,
\* exception inside the stage, silent input for auto-gain) enhance does not
\* raise, the stage is skipped with the buffer unchanged and applied = false,
\* and the remaining enabled stages still run.
C16_FailedStageSkipped ==
    /\ epc # "raised"
    /\ \A n \in 1..Len(eCalls) : StageFails(eCalls[n]) => Skipped(eCalls[n])
    /\ epc = "returned" => CalledStages = EnabledInFixedOrder

\* C16 amended: the same, except that the spectral gate whose scipy import
\* fails is not skipped: it applies the simple amplitude gate and records
\* applied = true.
C16_FailedStageSkippedExceptGate ==
    /\ epc # "raised"
    /\ \A n \in 1..Len(eCalls) :
         IF GateFallsBack(eCalls[n])
         THEN /\ eCalls[n].raised = None
              /\ eCalls[n].output = Transformed(eCalls[n].input, "simple_gate")
              /\ applied["spectral_gate"] = Entry(TRUE)
         ELSE StageFails(eCalls[n]) => Skipped(eCalls[n])
    /\ epc = "returned" => CalledStages = EnabledInFixedOrder

\* without scipy: high-pass was skipped, the gate fell back to the simple
\* gate, a faulting noise reduction was skipped, and auto-gain still ran on
\* the gated buffer
C16_Witness ==
    /\ epc = "returned"
    /\ ~eEnv.scipy /\ eEnv.noisereduce /\ eEnv.fault = "noise_reduction"
    /\ Len(eCalls) = 4
    /\ eCalls[1].stage = "highpass" /\ Skipped(eCalls[1])
    /\ eCalls[2].stage = "noise_reduction" /\ Skipped(eCalls[2])
    /\ eCalls[3].stage = "spectral_gate" /\ GateFallsBack(eCalls[3])
    /\ eCalls[4].stage = "auto_gain"
    /\ eCalls[4].input = Transformed(eAudio, "simple_gate")
    /\ applied["auto_gain"] = Entry(TRUE)

-----------------------------------------------------------------------------
(* Decode failures *)

\* the request's payload cannot be decoded
Undecodable == request.audio \in {"ragged_pcm", "corrupt_file"}

\* C17: a request whose payload cannot be decoded is aborted with an error
\* before the silence gate: no model is invoked, nothing is stored, and the
\* caller is answered with a client-input failure (400).
C17_DecodeFailureIsClientError ==
    (rpc = "done" /\ Undecodable) =>
        /\ IsException(response)
        /\ tasks = <<>>
        /\ ~stored
        /\ http_status = 400

-----------------------------------------------------------------------------
(* AudioProcessor *)

\* C18: pad_or_trim(w, N) has exactly N samples; a longer w gives the window
\* of w that starts floor((len(w) - N) / 2) samples in; a shorter w gives w
\* after floor(p / 2) zeros and before p - floor(p / 2) zeros, p = N - len(w);
\* a w of N samples is returned as it is.
C18_PadOrTrim ==
    apc = "pad_or_trim" =>
        LET out == aOut.audio
            n == Len(aWave)
            N == processor.target_samples
            p == N - n
            lead == p \div 2
        IN /\ aOut.exc = None
           /\ Len(out) = N
           /\ n > N => \A i \in 1..N : out[i] = aWave[(n - N) \div 2 + i]
           /\ n < N =>
                /\ \A i \in 1..lead : out[i] = Zero
                /\ \A i \in 1..n : out[lead + i] = aWave[i]
                /\ \A i \in (lead + n + 1)..N : out[i] = Zero
                /\ N - (lead + n) = p - lead
           /\ n = N => out = aWave

\* a non-zero sample padded by an odd number of zeros: one more zero behind
\* it than in front of it
C18_Witness ==
    /\ apc = "pad_or_trim"
    /\ aWave = <<<<1, 2>>>>
    /\ processor.target_samples = 4
    /\ aOut.audio = <<Zero, <<1, 2>>, Zero, Zero>>

\* every sample lies in [-1.0, 1.0]
InUnitRange(audio) ==
    \A i \in 1..Len(audio) : FracLeq(FracAbs(audio[i]), One)

\* C19: prepare_for_model is decode, resample, normalize, pad_or_trim in that
\* order, and for every decodable input of any length and source rate it
\* returns a waveform of exactly target_samples samples, all in [-1.0, 1.0].
C19_PreparedLengthAndRange ==
    (apc = "prepare_for_model" /\ decode_base64_audio(aRaw).exc = None) =>
        /\ aOut.exc = None
        /\ Len(aOut.audio) = processor.target_samples
        /\ InUnitRange(aOut.audio)
        /\ aOut.audio =
             pad_or_trim(
               normalize(
                 resample(decode_base64_audio(aRaw).audio,
                          aRaw.source_sample_rate,
                          processor.target_sample_rate,
                          aRaw.resampler)).audio,
               processor.target_samples)

AllZero(audio) == \A i \in 1..Len(audio) : audio[i] = Zero

\* C20: normalize(normalize(w)) = normalize(w) for every waveform w; when the
\* peak of w is not zero the largest absolute sample of normalize(w) is 1.0;
\* an all-zero w is returned unchanged, without an error.
C20_NormalizeIdempotent ==
    /\ apc = "normalize" =>
         /\ aOut.exc = None
         /\ ~AllZero(aWave) => Peak(aOut.audio) = One
         /\ AllZero(aWave) => aOut.audio = aWave
    /\ apc = "normalize_twice" => aOut = aFirst

-----------------------------------------------------------------------------
(* Silence gate *)

\* every sample has amplitude 1e-5 at most
NearSilent(audio) ==
    \A i \in 1..Len(audio) : FracLeq(FracAbs(audio[i]), <<1, 100000>>)

\* every sample has amplitude 0.5
HalfScale(audio) ==
    /\ audio # <<>>
    /\ \A i \in 1..Len(audio) : FracAbs(audio[i]) = <<1, 2>>

\* C21: a decodable input (of one sample or more) whose samples all have
\* amplitude 1e-5 at most is answered with the silence_detection result
\* before any model is invoked; an input of amplitude 0.5 passes the gate.
C21_SilenceGate ==
    (apc = "process_audio_chunk" /\ decode_base64_audio(aRaw).exc = None
       /\ aRaw.payload # <<>> /\ processor.target_samples > 0) =>
        LET decoded == decode_base64_audio(aRaw).audio
        IN /\ NearSilent(decoded) => aGate = "silence_detection"
           /\ (HalfScale(decoded)
                 /\ aRaw.source_sample_rate = processor.target_sample_rate)
              => aGate = "predict_all"

-----------------------------------------------------------------------------
(* Enhancement in the request path *)

\* position of a call in the calls of the upload (0: not called)
RECURSIVE IndexFrom(_, _, _)
IndexFrom(name, calls, i) ==
    IF i > Len(calls) THEN 0
    ELSE IF calls[i] = name THEN i ELSE IndexFrom(name, calls, i + 1)
CallIndex(name) == IndexFrom(name, upload.calls, 1)

\* C22 as stated: enhance runs after prepare_for_model and before
\* predict_all, and the models are handed the waveform enhance returned.
C22_EnhanceAfterPrepare ==
    upload.predicted =>
        /\ CallIndex("prepare_for_model") > 0
        /\ CallIndex("prepare_for_model") < CallIndex("enhance")
        /\ CallIndex("enhance") < CallIndex("predict_all")
        /\ upload.model_audio = enhanced

\* C22 amended: enhance runs on the decoded upload before prepare_for_model;
\* what it returns is re-encoded as WAV and prepared, the silence check
\* follows, and the models are handed the prepared waveform of the enhanced
\* audio.
C22_EnhanceBeforePrepare ==
    /\ upload.predicted =>
         /\ upload.calls = <<"enhance", "prepare_for_model", "detect_silence",
                             "predict_all">>
         /\ upload.model_audio =
              Transformed(Transformed(enhanced, "wav"), "prepare_for_model")
         /\ eCalls # <<>> =>
              upload.model_audio.trace =
                eCalls[Len(eCalls)].output.trace \o <<"wav", "prepare_for_model">>
    /\ CallIndex("prepare_for_model") > 0 =>
         /\ epc = "returned"
         /\ CallIndex("enhance") = 1

\* a band-pass filtered upload reached the models, re-encoded and prepared
C22_Witness ==
    /\ upload.predicted
    /\ settings.bandpass_enabled
    /\ applied["bandpass"] = Entry(TRUE)
    /\ upload.model_audio.trace = <<"bandpass", "wav", "prepare_for_model">>

-----------------------------------------------------------------------------
(* Fan-out and fan-in *)

\* C23: load_models and predict_all return only after every task they
\* started has settled; if every started load() and predict() settles,
\* load_models and predict_all return.
C23_ReturnAfterAllSettled ==
    /\ [](pc \in {"serving", "unloading", "stopped"} =>
            \A m \in Models : loadTask[m] # "running")
    /\ []((rpc = "done" /\ tasks # <<>>) =>
            \A i \in 1..Len(results) : ~IsPending(results[i]))
    /\ (pc = "loading") ~> (pc = "serving")
    /\ (rpc = "predicting") ~> (rpc = "done")

\* both fan-ins returned after a task of each had raised
C23_Witness ==
    /\ pc = "serving"
    /\ \E m \in Models : loadTask[m] = "raised"
    /\ \E m \in Models : loadTask[m] = "done"
    /\ rpc = "done"
    /\ Len(results) >= 2
    /\ \E i \in 1..Len(results) : IsException(results[i])
    /\ \E i \in 1..Len(results) : IsModelOutput(results[i])

\* C24: a caller that times out or cancels its wait on predict_all does not
\* cancel the predict calls it started: none of them ends with the
\* cancellation, each returns or raises by itself.
C24_NoCancellationOfPredict ==
    \A i \in 1..Len(results) :
        ~(IsException(results[i]) /\ results[i].exc = "CancelledError")

\* C25: within one predict_all call no registered model's predict is
\* invoked twice, and the returned list is no longer than the mapping of
\* registered models, whatever the names argument.
C25_OnePredictPerModel ==
    /\ \A i, j \in 1..Len(tasks) : tasks[i] = tasks[j] => i = j
    /\ Len(model_outputs) <= Len(registered)

\* C26: the list predict_all returns holds the ModelOutputs slot by slot in
\* the order the models were selected, whichever predict call settled
\* first, and the consensus of the response is the consensus of that list.
C26_SelectionOrder ==
    (rpc = "done" /\ tasks # <<>>) =>
        LET idx == {i \in 1..Len(results) : IsModelOutput(results[i])}
            Kth(k) == CHOOSE i \in idx : Cardinality({j \in idx : j <= i}) = k
            inOrder == [k \in 1..Cardinality(idx) |-> results[Kth(k)]]
        IN  /\ model_outputs = inOrder
            /\ \A k \in 1..Len(model_outputs) :
                 model_outputs[k].model_name = tasks[Kth(k)]
            /\ IsResponse(response) =>
                 /\ response.consensus
                      = compute_consensus(inOrder, "weighted_average")
                 /\ response.model_predictions
                      = [k \in 1..Len(inOrder) |-> ModelPrediction(inOrder[k])]

C26_Witness ==
    /\ rpc = "done"
    /\ tasks = <<"birdnet", "dima_bird">>
    /\ registered = <<"dima_bird", "birdnet">>
    /\ Len(model_outputs) = 2
    /\ model_outputs[1].predictions # <<>>
    /\ model_outputs[2].predictions # <<>>
    /\ model_outputs[1].predictions[1].species_common
         # model_outputs[2].predictions[1].species_common
    /\ IsResponse(response)

\* C27: of every ModelOutput with predictions it is the rank == 1 prediction
\* that enters the vote: the consensus is the method's verdict over the
\* rank-1 predictions of the contributing outputs.
C27_RankOneEntersVote ==
    cpc = "computed" =>
        LET contributing == SelectSeq(cOutputs, LAMBDA o : o.predictions # <<>>)
            RankOne(o) ==
                CHOOSE p \in {o.predictions[k] : k \in 1..Len(o.predictions)} :
                    p.rank = 1
            entering ==
                [i \in 1..Len(contributing) |->
                    [model |-> contributing[i].model_name,
                     species |-> RankOne(contributing[i]).species_common,
                     species_code |-> RankOne(contributing[i]).species_code,
                     species_scientific |->
                         RankOne(contributing[i]).species_scientific,
                     confidence |-> RankOne(contributing[i]).confidence]]
        IN  /\ TopPredictions(cOutputs) = entering
            /\ contributing # <<>> =>
                 cResult = Dispatch(entering, cMethod, Len(cOutputs))

C27_Witness ==
    /\ cpc = "computed"
    /\ Len(cOutputs) = 2
    /\ cOutputs[1].predictions = <<>>
    /\ Len(cOutputs[2].predictions) = 2
    /\ cOutputs[2].predictions[1].confidence > cOutputs[2].predictions[2].confidence
    /\ cResult.species_common = cOutputs[2].predictions[1].species_common

-----------------------------------------------------------------------------
(* Cut-offs at or above Nyquist *)

Nyquist == sample_rate \div 2

HighpassAtNyquist(call) ==
    call.stage = "highpass" /\ settings.highpass_freq >= Nyquist

BandpassAtNyquist(call) ==
    /\ call.stage = "bandpass"
    /\ \/ settings.bandpass_low_freq >= Nyquist
       \/ settings.bandpass_high_freq >= Nyquist

\* the upper band edge the band-pass works with
EffectiveHigh ==
    IF settings.bandpass_high_freq >= Nyquist
    THEN (Nyquist * 95) \div 100
    ELSE settings.bandpass_high_freq

-----------------------------------------------------------------------------
(* Ties under weighted_average and max_confidence *)

\* the outputs whose top-1 confidence is the highest of all
TopScorers ==
    {i \in UNION {Voters(s) : s \in Species} :
        cOutputs[i].predictions[1].confidence = MaxTop}

\* C29: under weighted_average a tie in summed confidence goes to the group
\* whose first member is earlier in the outputs list; under max_confidence a
\* tie in confidence goes to the top-1 prediction of the earlier output.
C29_TiesByInputOrder ==
    (cpc = "computed" /\ Voted # {}) =>
        /\ cMethod = "weighted_average" =>
             \A s \in Voted :
                 \/ SumTop(Voters(s)) < SumTop(Voters(cResult.species_common))
                 \/ /\ SumTop(Voters(s)) = SumTop(Voters(cResult.species_common))
                    /\ FirstVoter(cResult.species_common) <= FirstVoter(s)
        /\ cMethod = "max_confidence" =>
             \E i \in TopScorers :
                 /\ \A j \in TopScorers : i <= j
                 /\ cResult.species_common
                      = cOutputs[i].predictions[1].species_common
                 /\ cResult.species_code = cOutputs[i].predictions[1].species_code

\* Robin and Blackbird both at 0.88, Robin first: Robin wins under
\* weighted_average
C29_Witness ==
    /\ cpc = "computed"
    /\ cMethod = "weighted_average"
    /\ Len(cOutputs) = 2
    /\ Voters("European Robin") = {1}
    /\ Voters("Eurasian Blackbird") = {2}
    /\ cOutputs[1].predictions[1].confidence = 88
    /\ cOutputs[2].predictions[1].confidence = 88
    /\ cResult.species_common = "European Robin"

-----------------------------------------------------------------------------
(* RateLimiter: quotas *)

\* the allowed calls of client c whose timestamps lie in the window of the
\* given length that ends at timestamp e
GrantedInWindow(c, e, length) ==
    Cardinality({k \in 1..Len(granted[c]) :
                    granted[c][k] > e - length /\ granted[c][k] <= e})

\* a timestamp is recorded for every allowed call and for no other
RecordedAreGranted(c) ==
    \A k \in 1..Len(_clients[c].hour_requests) :
        \E g \in 1..Len(granted[c]) :
            granted[c][g] = _clients[c].hour_requests[k]

\* a step changes the state of a client only if it is a call of that client
OwnCallsOnly ==
    \A c \in Clients :
        _clients'[c] # _clients[c] =>
            \E t \in Threads :
                lpc[t] = "at_lock" /\ tClient[t] = c /\ lpc'[t] = "idle"

====
